---- MODULE Spec2Model ----
(***************************************************************************)
(* Event dispatch core of native-windows-gui: the subclass procedure       *)
(* process_events, the notification parse tables, the message loop         *)
(* (dispatch_events / exit) of src/src/low/events.rs, and the registry     *)
(* (UiInner) they work on.  UiInner itself (ui.rs) and low::defs are not   *)
(* part of the sources at hand: the registry, the control store and the    *)
(* event table follow the written specification of the repository.         *)
(*                                                                         *)
(* Encoding of machine words.  HWND, WPARAM, LPARAM values are naturals.   *)
(* A u32 whose top bit is set is written as its two's complement           *)
(* representative (v - 2^32), the way the platform headers write the       *)
(* DTN_ codes (0U - 753U): the map is a bijection on 32 bit words.         *)
(***************************************************************************)
EXTENDS Integers, Sequences, FiniteSets, TLC

VARIABLES
    handles,      \* UiInner: AnyHandle -> inner id (the bound handles only)
    ids,          \* UiInner: inner id -> AnyHandle (the bound ids only)
    controls,     \* UiInner.controls: inner id -> stored control
    callbacks,    \* UiInner event table: <<id, event>> -> Seq(handler)
    held,         \* ids of the controls borrowed by the executing callback
    res,          \* result returned by the Ui operation just executed (else NoRes)
    pc,           \* position of process_events for the message in `cur`
    cur,          \* the message process_events is handling
    cb_data,      \* the local callback_data of process_events
    triggered,    \* trigger calls made for `cur`: Seq(<<id, event, args>>)
    snapshot,     \* the callback list the running trigger iterates over
    idx,          \* number of callbacks of `snapshot` already entered
    running,      \* the handler executing now, or NoHandler
    invoked,      \* callbacks entered for `cur`: Seq(<<id, event, args, handler>>)
    forwarded,    \* number of DefSubclassProc calls made for `cur`
    queue,        \* the thread's posted-message queue
    lp,           \* position of dispatch_events
    hooks,        \* platform: HWND -> reference data of the dispatch subclass installed on it
    windows       \* platform: the windows created by control builds and not destroyed

vars == <<handles, ids, controls, callbacks, held, res, pc, cur, cb_data,
          triggered, snapshot, idx, running, invoked, forwarded, queue, lp,
          hooks, windows>>

platform == <<hooks, windows>>
registry == <<handles, ids, controls>>
dispatcher == <<pc, cur, cb_data, triggered, snapshot, idx, running, invoked, forwarded>>

-----------------------------------------------------------------------------
(* Platform message codes and notification codes used by events.rs.        *)

WM_MOVE == 3
WM_SIZE == 5
WM_PAINT == 15
WM_CLOSE == 16
WM_QUIT == 18
WM_NOTIFY == 78
WM_KEYDOWN == 256
WM_CHAR == 258
WM_UNICHAR == 265
WM_COMMAND == 273
WM_TIMER == 275
WM_MENUCOMMAND == 294
WM_LBUTTONDOWN == 513
WM_LBUTTONUP == 514

BN_CLICKED == 0

LBN_SELCHANGE == 1
LBN_DBLCLK == 2
LBN_SETFOCUS == 4
LBN_KILLFOCUS == 5

EN_SETFOCUS == 256
EN_KILLFOCUS == 512
EN_UPDATE == 1024
EN_MAXTEXT == 1281

STN_CLICKED == 0
STN_DBLCLK == 1

\* DTN_CLOSEUP is (0U - 753U); DTN_DATETIMECHANGE is (0U - 759U)
DTN_CLOSEUP == -753
DTN_DATETIMECHANGE == -759

\* The reserved range of NWG's own messages (low::defs)
NWG_CUSTOM_MIN == 1024
NWG_CUSTOM_MAX == 1280

\* winapi LOWORD / HIWORD of (x as DWORD), for a word x >= 0:
\* ((x mod 2^32) div 2^16) = (x div 2^16) mod 2^16
LOWORD(x) == x % 65536
HIWORD(x) == (x \div 65536) % 65536
MAKEWPARAM(lo, hi) == hi * 65536 + lo

-----------------------------------------------------------------------------
(* AnyHandle, ControlType and the controls the platform can build.         *)

HWND(h) == <<"HWND", h>>
HMENU_ITEM(menu, item) == <<"HMENU_ITEM", menu, item>>
TimerHandle(n) == <<"Custom", "Timer", n>>

\* low::menu_helper::get_menu_id: GetMenuItemID(menu, position)
get_menu_id(menu, pos) == 10 * menu + pos

\* The window classes the platform has created windows of: window handle h
\* (1..Len) is of class HwndClass[h]; handle 0 is the null handle
HwndClass == <<"Window", "Button", "ListBox", "DatePicker", "TextInput", "TextBox", "Label">>
Hwnds == 1..Len(HwndClass)
NullHwnd == 0
HwndOf(class) == CHOOSE h \in Hwnds : HwndClass[h] = class
WindowHwnd == HwndOf("Window")
ButtonHwnd == HwndOf("Button")
ListBoxHwnd == HwndOf("ListBox")
DatePickerHwnd == HwndOf("DatePicker")

Menus == {1}
TimerIds == {1}

ControlTypeOfHwnd(h) == IF h \in Hwnds THEN HwndClass[h] ELSE "Undefined"

\* Control::control_type() of the control that owns `handle`
control_type_of(handle) ==
    CASE handle[1] = "HWND" -> ControlTypeOfHwnd(handle[2])
      [] handle[1] = "HMENU_ITEM" -> "MenuItem"
      [] OTHER -> "Timer"

Ids == 0..1
NoId == -1
\* addresses of the UiInner of this Ui and of a second Ui of the same process
ThisUi == "ui"
OtherUi == "other"
NoHandler == "-"
NoRes == <<>>
NoHandle == <<>>
\* what a Ui operation returned: <<operation, id, handle, error>>
Result(op, id, handle, err) == <<op, id, handle, err>>
NoMsg == [hwnd |-> 0, msg |-> 0, w |-> 0, l |-> 0]
NoneCD == <<>>

\* Largest elapsed time (in ticks) a Timer control reports
MaxElapsed == 1

\* A stored control: Box<Control> with its handle, its type and (Timer) elapsed()
Control(handle, e) == [handle |-> handle, ctype |-> control_type_of(handle), elapsed |-> e]

-----------------------------------------------------------------------------
(* UiInner: handle registry, control store, event table.                   *)

\* UiInner::inner_id_from_handle
inner_id_from_handle(handle) ==
    IF handle \in DOMAIN handles THEN handles[handle] ELSE NoId

\* register that checks the id only and overwrites the handle's mapping
register_overwrite(id, handle) ==
    IF id \in DOMAIN ids
    THEN [err |-> "KeyExists", handles |-> handles, ids |-> ids]
    ELSE [err |-> "Ok",
          handles |-> [h \in DOMAIN handles \cup {handle} |->
                          IF h = handle THEN id ELSE handles[h]],
          ids |-> [i \in DOMAIN ids \cup {id} |->
                          IF i = id THEN handle ELSE ids[i]]]

\* HandleRegistry.register(id, handle): the new <<handles, ids>>, or KeyExists
register(id, handle) ==
    IF id \in DOMAIN ids \/ handle \in DOMAIN handles
    THEN [err |-> "KeyExists", handles |-> handles, ids |-> ids]
    ELSE [err |-> "Ok",
          handles |-> [h \in DOMAIN handles \cup {handle} |->
                          IF h = handle THEN id ELSE handles[h]],
          ids |-> [i \in DOMAIN ids \cup {id} |->
                          IF i = id THEN handle ELSE ids[i]]]

\* an unregister that forgets the id but leaves the handle bound
unregister_one_way(id) ==
    IF id \notin DOMAIN ids
    THEN [handles |-> handles, ids |-> ids]
    ELSE [handles |-> handles,
          ids |-> [i \in DOMAIN ids \ {id} |-> ids[i]]]

\* HandleRegistry.unregister(id): removes both directions
unregister(id) ==
    IF id \notin DOMAIN ids
    THEN [handles |-> handles, ids |-> ids]
    ELSE [handles |-> [h \in DOMAIN handles \ {ids[id]} |-> handles[h]],
          ids |-> [i \in DOMAIN ids \ {id} |-> ids[i]]]

\* ControlStore.insert(id, control)
insert(id, control) ==
    IF id \in DOMAIN controls
    THEN [err |-> "KeyExists", controls |-> controls]
    ELSE [err |-> "Ok",
          controls |-> [i \in DOMAIN controls \cup {id} |->
                           IF i = id THEN control ELSE controls[i]]]

\* remove that does not look at the borrow state
remove_unchecked(id) ==
    IF id \notin DOMAIN controls
    THEN [err |-> "KeyNotFound", controls |-> controls]
    ELSE [err |-> "Ok", controls |-> [i \in DOMAIN controls \ {id} |-> controls[i]]]

\* ControlStore.remove(id): rejected while the control is borrowed
remove(id) ==
    IF id \notin DOMAIN controls
    THEN [err |-> "KeyNotFound", controls |-> controls]
    ELSE IF id \in held
    THEN [err |-> "ControlInUse", controls |-> controls]
    ELSE [err |-> "Ok", controls |-> [i \in DOMAIN controls \ {id} |-> controls[i]]]

Events == {"Click", "DoubleClick", "Focus", "SelectionChanged", "ValueChanged",
           "LimitReached", "DateChanged", "Triggered", "Tick", "Any"}
Slots == Ids \X Events

\* the callbacks registered for (id, event), in registration order
callbacks_of(id, evt) == callbacks[<<id, evt>>]

-----------------------------------------------------------------------------
(* The notification parse tables (events.rs, parse_*_command).             *)

ArgsNone == <<"None">>
ArgsFocus(b) == <<"Focus", b>>
ArgsTick(e) == <<"Tick", e>>
ArgsRaw(msg, w, l) == <<"Raw", msg, w, l>>

\* list box table whose default arm reports a selection change
parse_listbox_command_default(id, ncode) ==
    CASE ncode = LBN_DBLCLK -> <<id, "DoubleClick", ArgsNone>>
      [] ncode = LBN_SETFOCUS \/ ncode = LBN_KILLFOCUS ->
            <<id, "Focus", ArgsFocus(ncode = LBN_SETFOCUS)>>
      [] OTHER -> <<id, "SelectionChanged", ArgsNone>>

parse_listbox_command(id, ncode) ==
    CASE ncode = LBN_SELCHANGE -> <<id, "SelectionChanged", ArgsNone>>
      [] ncode = LBN_DBLCLK -> <<id, "DoubleClick", ArgsNone>>
      [] ncode = LBN_SETFOCUS \/ ncode = LBN_KILLFOCUS ->
            <<id, "Focus", ArgsFocus(ncode = LBN_SETFOCUS)>>
      [] OTHER -> NoneCD

parse_edit_command(id, ncode) ==
    CASE ncode = EN_UPDATE -> <<id, "ValueChanged", ArgsNone>>
      [] ncode = EN_MAXTEXT -> <<id, "LimitReached", ArgsNone>>
      [] ncode = EN_SETFOCUS \/ ncode = EN_KILLFOCUS ->
            <<id, "Focus", ArgsFocus(ncode = EN_SETFOCUS)>>
      [] OTHER -> NoneCD

parse_static_command(id, ncode) ==
    CASE ncode = STN_CLICKED -> <<id, "Click", ArgsNone>>
      [] ncode = STN_DBLCLK -> <<id, "DoubleClick", ArgsNone>>
      [] OTHER -> NoneCD

parse_datepicker_command(id, ncode) ==
    CASE ncode = DTN_CLOSEUP -> <<id, "DateChanged", ArgsNone>>
      [] OTHER -> NoneCD

\* parse_notify(id, control_type, w): the code is compared as a u32
parse_notify(id, control_type, w) ==
    CASE control_type = "DatePicker" -> parse_datepicker_command(id, w)
      [] OTHER -> NoneCD

\* a parse_command with an arm for buttons
parse_command_button(id, control_type, w) ==
    LET ncode == HIWORD(w) IN
    CASE control_type = "ListBox" -> parse_listbox_command(id, ncode)
      [] control_type \in {"TextInput", "TextBox"} -> parse_edit_command(id, ncode)
      [] control_type = "Label" -> parse_static_command(id, ncode)
      [] control_type = "DatePicker" -> parse_datepicker_command(id, ncode)
      [] control_type = "Button" /\ ncode = BN_CLICKED -> <<id, "Click", ArgsNone>>
      [] OTHER -> NoneCD

\* parse_command(id, control_type, w): the notify code is HIWORD(w as DWORD)
parse_command(id, control_type, w) ==
    LET ncode == HIWORD(w) IN
    CASE control_type = "ListBox" -> parse_listbox_command(id, ncode)
      [] control_type \in {"TextInput", "TextBox"} -> parse_edit_command(id, ncode)
      [] control_type = "Label" -> parse_static_command(id, ncode)
      [] control_type = "DatePicker" -> parse_datepicker_command(id, ncode)
      [] OTHER -> NoneCD

-----------------------------------------------------------------------------
(* process_events: classification of one raw message.                      *)

\* The NMHDR structures a WM_NOTIFY payload pointer can point to: the pointer
\* l is the index of the structure in this memory
NMHDRs == << [hwndFrom |-> DatePickerHwnd, code |-> DTN_CLOSEUP],
             [hwndFrom |-> DatePickerHwnd, code |-> DTN_DATETIMECHANGE],
             [hwndFrom |-> ListBoxHwnd, code |-> DTN_CLOSEUP] >>

\* callback_data when expect() / unwrap() on a missing control panics
PanicCD == <<"panic">>

\* WM_COMMAND arm
classify_command(m) ==
    IF m.l = NullHwnd THEN NoneCD
    ELSE LET id == inner_id_from_handle(HWND(m.l)) IN
         IF id = NoId THEN NoneCD
         ELSE IF id \notin DOMAIN controls THEN PanicCD
         ELSE parse_command(id, controls[id].ctype, m.w)

\* WM_NOTIFY arm that gives up quietly when the control is missing
classify_notify_lenient(m) ==
    LET nmdr == NMHDRs[m.l]
        id == inner_id_from_handle(HWND(nmdr.hwndFrom)) IN
    IF id = NoId \/ id \notin DOMAIN controls THEN NoneCD
    ELSE parse_notify(id, controls[id].ctype, nmdr.code)

\* WM_NOTIFY arm
classify_notify(m) ==
    LET nmdr == NMHDRs[m.l]
        id == inner_id_from_handle(HWND(nmdr.hwndFrom)) IN
    IF id = NoId THEN NoneCD
    ELSE IF id \notin DOMAIN controls THEN PanicCD
    ELSE parse_notify(id, controls[id].ctype, nmdr.code)

\* WM_MENUCOMMAND arm
classify_menucommand(m) ==
    LET id == inner_id_from_handle(HMENU_ITEM(m.l, get_menu_id(m.l, m.w))) IN
    IF id = NoId THEN NoneCD ELSE <<id, "Triggered", ArgsNone>>

\* WM_TIMER arm with the lookup result unwrapped
classify_timer_unwrap(m) ==
    LET id == inner_id_from_handle(TimerHandle(m.w)) IN
    IF id = NoId \/ id \notin DOMAIN controls THEN PanicCD
    ELSE <<id, "Tick", ArgsTick(controls[id].elapsed)>>

\* WM_TIMER arm that reports no elapsed time
classify_timer_stale(m) ==
    LET id == inner_id_from_handle(TimerHandle(m.w)) IN
    IF id = NoId THEN NoneCD
    ELSE IF id \notin DOMAIN controls THEN PanicCD
    ELSE <<id, "Tick", ArgsTick(0)>>

\* WM_TIMER arm
classify_timer(m) ==
    LET id == inner_id_from_handle(TimerHandle(m.w)) IN
    IF id = NoId THEN NoneCD
    ELSE IF id \notin DOMAIN controls THEN PanicCD
    ELSE <<id, "Tick", ArgsTick(controls[id].elapsed)>>

\* a match with an arm that turns a left button release into a Click of the window
classify_mouse(m) ==
    CASE m.msg = WM_COMMAND -> classify_command(m)
      [] m.msg = WM_NOTIFY -> classify_notify(m)
      [] m.msg = WM_MENUCOMMAND -> classify_menucommand(m)
      [] m.msg = WM_TIMER -> classify_timer(m)
      [] m.msg = WM_LBUTTONUP /\ inner_id_from_handle(HWND(m.hwnd)) # NoId ->
            <<inner_id_from_handle(HWND(m.hwnd)), "Click", ArgsNone>>
      [] OTHER -> NoneCD

\* the `match msg { ... }` of process_events: Some((id, evt, args)), None or a panic
classify(m) ==
    CASE m.msg = WM_COMMAND -> classify_command(m)
      [] m.msg = WM_NOTIFY -> classify_notify(m)
      [] m.msg = WM_MENUCOMMAND -> classify_menucommand(m)
      [] m.msg = WM_TIMER -> classify_timer(m)
      [] OTHER -> NoneCD

\* the range test with both comparisons off by one
outside_custom_range_incl(msg) == msg <= NWG_CUSTOM_MIN \/ msg >= NWG_CUSTOM_MAX

\* `msg < NWG_CUSTOM_MIN || msg > NWG_CUSTOM_MAX`
outside_custom_range(msg) == msg < NWG_CUSTOM_MIN \/ msg > NWG_CUSTOM_MAX

\* the raw event of process_events: Some((id, Any, Raw(msg, w, l))) or None
raw_event(m) ==
    IF outside_custom_range(m.msg)
    THEN LET id == inner_id_from_handle(HWND(m.hwnd)) IN
         IF id = NoId THEN NoneCD ELSE <<id, "Any", ArgsRaw(m.msg, m.w, m.l)>>
    ELSE NoneCD

\* trigger that walks the registered list itself while callbacks change it
iter_list_live(snap, live) == live

\* UiInner::trigger iterates over the callback list as it was when trigger began
iter_list(snap, live) == snap

-----------------------------------------------------------------------------
(* Operations of the application on the Ui (setup code, or code run inside *)
(* a callback).                                                            *)

NoCallbacks == [s \in Slots |-> <<>>]

\* application code runs before dispatch_events is entered, or inside a callback
UserCtx == (pc = "idle" /\ lp = "setup") \/ running # NoHandler

\* Ui::pack_control: build the control, store it and register its handle
Pack(id, handle, e) ==
    /\ UserCtx
    /\ LET s == insert(id, Control(handle, e))
           r == register(id, handle) IN
       IF s.err = "Ok" /\ r.err = "Ok"
       THEN /\ controls' = s.controls
            /\ handles' = r.handles
            /\ ids' = r.ids
            /\ res' = Result("Pack", id, handle, "Ok")
       ELSE /\ res' = Result("Pack", id, handle, "KeyExists")
            /\ UNCHANGED registry
    /\ UNCHANGED <<callbacks, held, dispatcher, queue, lp>>
    /\ UNCHANGED platform

\* Ui::unpack: remove the control (free it), unregister its handle, drop its callbacks
Unpack(id) ==
    /\ UserCtx
    /\ LET s == remove(id)
           r == unregister(id) IN
       IF s.err = "Ok"
       THEN /\ controls' = s.controls
            /\ handles' = r.handles
            /\ ids' = r.ids
            /\ callbacks' = [sl \in Slots |-> IF sl[1] = id THEN <<>> ELSE callbacks[sl]]
            /\ res' = Result("Unpack", id, ids[id], "Ok")
       ELSE /\ res' = Result("Unpack", id, NoHandle, s.err)
            /\ UNCHANGED <<registry, callbacks>>
    /\ UNCHANGED <<held, dispatcher, queue, lp>>
    /\ UNCHANGED platform

InSeq(x, sq) == \E i \in 1..Len(sq) : sq[i] = x
Without(sq, x) == SelectSeq(sq, LAMBDA y : y # x)

\* Ui::bind: register handler h for (id, evt), after the ones already registered
Bind(id, evt, h) ==
    /\ UserCtx
    /\ id \in DOMAIN controls
    /\ ~InSeq(h, callbacks_of(id, evt))
    /\ callbacks' = [callbacks EXCEPT ![<<id, evt>>] = Append(@, h)]
    /\ res' = Result("Bind", id, NoHandle, "Ok")
    /\ UNCHANGED <<registry, held, dispatcher, queue, lp>>
    /\ UNCHANGED platform

\* Ui::unbind: remove handler h from (id, evt)
Unbind(id, evt, h) ==
    /\ UserCtx
    /\ InSeq(h, callbacks_of(id, evt))
    /\ callbacks' = [callbacks EXCEPT ![<<id, evt>>] = Without(@, h)]
    /\ res' = Result("Unbind", id, NoHandle, "Ok")
    /\ UNCHANGED <<registry, held, dispatcher, queue, lp>>
    /\ UNCHANGED platform

\* the executing callback borrows the control stored under id
Hold(id) ==
    /\ running # NoHandler
    /\ id \in DOMAIN controls
    /\ id \notin held
    /\ held' = held \cup {id}
    /\ res' = Result("Hold", id, NoHandle, "Ok")
    /\ UNCHANGED <<registry, callbacks, dispatcher, queue, lp>>
    /\ UNCHANGED platform

-----------------------------------------------------------------------------
(* process_events, step by step: the steps are the points where a callback *)
(* runs and may re-enter the Ui.                                           *)

Msg(hwnd, msg, w, l) == [hwnd |-> hwnd, msg |-> msg, w |-> w, l |-> l]

\* the trigger call in progress
CurTrigger == triggered[Len(triggered)]

\* the list the trigger in progress walks through
CurList ==
    IF triggered = <<>> THEN <<>>
    ELSE iter_list(snapshot, callbacks_of(CurTrigger[1], CurTrigger[2]))

\* the trigger in progress has invoked all its callbacks and the last one returned
IterDone == running = NoHandler /\ idx >= Len(CurList)

\* process_events is entered with message m: classification, and the first trigger call
Begin(m) ==
    LET cd == classify(m) IN
    /\ pc = "idle"
    /\ cur' = m
    /\ cb_data' = cd
    /\ invoked' = <<>>
    /\ forwarded' = 0
    /\ running' = NoHandler
    /\ idx' = 0
    /\ IF cd = PanicCD
       THEN pc' = "panicked" /\ triggered' = <<>> /\ snapshot' = <<>>
       ELSE IF cd # NoneCD
       THEN /\ pc' = "specific"
            /\ triggered' = <<cd>>
            /\ snapshot' = callbacks_of(cd[1], cd[2])
       ELSE pc' = "raw" /\ triggered' = <<>> /\ snapshot' = <<>>

\* the platform sends message m to a hooked window (SendMessage path)
Deliver(m) ==
    /\ lp = "setup"
    /\ Begin(m)
    /\ res' = NoRes
    /\ UNCHANGED <<registry, callbacks, held, queue, lp>>
    /\ UNCHANGED platform

\* trigger invokes the next callback of its list
CallbackEnter ==
    /\ pc \in {"specific", "any"}
    /\ running = NoHandler
    /\ idx < Len(CurList)
    /\ running' = CurList[idx + 1]
    /\ invoked' = Append(invoked, <<CurTrigger[1], CurTrigger[2], CurTrigger[3], CurList[idx + 1]>>)
    /\ idx' = idx + 1
    /\ res' = NoRes
    /\ UNCHANGED <<registry, callbacks, held, pc, cur, cb_data, triggered,
                   snapshot, forwarded, queue, lp>>
    /\ UNCHANGED platform

\* the executing callback returns; its borrows end
CallbackReturn ==
    /\ running # NoHandler
    /\ running' = NoHandler
    /\ held' = {}
    /\ res' = NoRes
    /\ UNCHANGED <<registry, callbacks, pc, cur, cb_data, triggered,
                   snapshot, idx, invoked, forwarded, queue, lp>>
    /\ UNCHANGED platform

\* "Trigger a raw event": after the specific trigger (if any) has returned
RawStage ==
    /\ pc = "raw" \/ (pc = "specific" /\ IterDone)
    /\ LET ev == raw_event(cur) IN
       IF ev # NoneCD
       THEN /\ pc' = "any"
            /\ triggered' = Append(triggered, ev)
            /\ snapshot' = callbacks_of(ev[1], ev[2])
            /\ idx' = 0
       ELSE /\ pc' = "forward"
            /\ UNCHANGED <<triggered, snapshot, idx>>
    /\ res' = NoRes
    /\ UNCHANGED <<registry, callbacks, held, cur, cb_data, running,
                   invoked, forwarded, queue, lp>>
    /\ UNCHANGED platform

\* process_events that returns without forwarding once an event was triggered
Forward_unless_handled ==
    /\ pc = "forward" \/ (pc = "any" /\ IterDone)
    /\ forwarded' = IF triggered = <<>> THEN forwarded + 1 ELSE forwarded
    /\ pc' = "done"
    /\ res' = NoRes
    /\ UNCHANGED <<registry, callbacks, held, cur, cb_data, triggered,
                   snapshot, idx, running, invoked, queue, lp>>
    /\ UNCHANGED platform

\* DefSubclassProc(hwnd, msg, w, l)
Forward ==
    /\ pc = "forward" \/ (pc = "any" /\ IterDone)
    /\ forwarded' = forwarded + 1
    /\ pc' = "done"
    /\ res' = NoRes
    /\ UNCHANGED <<registry, callbacks, held, cur, cb_data, triggered,
                   snapshot, idx, running, invoked, queue, lp>>
    /\ UNCHANGED platform

\* process_events returns to the platform
Return ==
    /\ pc = "done"
    /\ pc' = "idle"
    /\ cur' = NoMsg
    /\ cb_data' = NoneCD
    /\ triggered' = <<>>
    /\ snapshot' = <<>>
    /\ idx' = 0
    /\ invoked' = <<>>
    /\ forwarded' = 0
    /\ lp' = IF lp = "dispatch" THEN "get" ELSE lp
    /\ res' = NoRes
    /\ UNCHANGED <<registry, callbacks, held, running, queue>>
    /\ UNCHANGED platform

-----------------------------------------------------------------------------
(* Specification: the application sets up and changes its Ui while the     *)
(* platform sends messages to its hooked windows.                          *)

\* handles of the controls the application packs
AppHandles == {HWND(WindowHwnd), HWND(ButtonHwnd), HWND(ListBoxHwnd), HWND(DatePickerHwnd),
               TimerHandle(1), HMENU_ITEM(1, get_menu_id(1, 0))}

ElapsedOf(handle) == IF control_type_of(handle) = "Timer" THEN 0..MaxElapsed ELSE {0}

\* handlers the application binds: <<id, event, handler>>
AppBinds == {<<0, "Any", "onAny">>, <<1, "Any", "onAny">>,
             <<1, "Click", "onClick">>, <<1, "SelectionChanged", "onSel">>}

\* messages the platform sends
CommandMsgs(hwnds, ncodes, sources) ==
    {Msg(h, WM_COMMAND, MAKEWPARAM(0, n), l) : h \in hwnds, n \in ncodes, l \in sources}
NotifyMsgs(hwnds) == {Msg(h, WM_NOTIFY, 0, p) : h \in hwnds, p \in 1..2}
MenuMsgs(hwnds) == {Msg(h, WM_MENUCOMMAND, pos, 1) : h \in hwnds, pos \in 0..1}
TimerMsgs(hwnds) == {Msg(h, WM_TIMER, t, 0) : h \in hwnds, t \in 1..2}
OtherMsgs(hwnds) ==
    {Msg(h, c, 0, 0) : h \in hwnds,
        c \in {WM_MOVE, NWG_CUSTOM_MIN - 1, NWG_CUSTOM_MIN, NWG_CUSTOM_MAX, NWG_CUSTOM_MAX + 1}}

Receivers == {WindowHwnd}

AppMsgs ==
    CommandMsgs(Receivers, {BN_CLICKED, LBN_SELCHANGE}, {NullHwnd, ButtonHwnd, ListBoxHwnd})
    \cup NotifyMsgs(Receivers) \cup MenuMsgs(Receivers) \cup TimerMsgs(Receivers)
    \cup OtherMsgs(Receivers)

Init ==
    /\ handles = <<>>
    /\ ids = <<>>
    /\ controls = <<>>
    /\ callbacks = NoCallbacks
    /\ held = {}
    /\ res = NoRes
    /\ pc = "idle"
    /\ cur = NoMsg
    /\ cb_data = NoneCD
    /\ triggered = <<>>
    /\ snapshot = <<>>
    /\ idx = 0
    /\ running = NoHandler
    /\ invoked = <<>>
    /\ forwarded = 0
    /\ queue = <<>>
    /\ lp = "setup"
    /\ hooks = [h \in Receivers |-> ThisUi]
    /\ windows = {}

\* the application packs its controls in its setup code ...
PackApp ==
    /\ pc = "idle"
    /\ \E id \in Ids, h \in AppHandles : \E e \in ElapsedOf(h) : Pack(id, h, e)
\* ... and its callbacks pack the main window again when they find it gone
RepackApp ==
    /\ running # NoHandler
    /\ 0 \notin DOMAIN controls
    /\ Pack(0, HWND(WindowHwnd), 0)
UnpackApp == \E id \in Ids : Unpack(id)
BindApp == \E b \in AppBinds : Bind(b[1], b[2], b[3])
UnbindApp == \E b \in AppBinds : Unbind(b[1], b[2], b[3])
DeliverApp == \E m \in AppMsgs : Deliver(m)

Next ==
    \/ PackApp
    \/ RepackApp
    \/ UnpackApp
    \/ BindApp
    \/ UnbindApp
    \/ DeliverApp
    \/ CallbackEnter
    \/ CallbackReturn
    \/ RawStage
    \/ Forward
    \/ Return

Spec == Init /\ [][Next]_vars

-----------------------------------------------------------------------------
(* SpecTrigger: one list box under id 1 in a window under id 0; the        *)
(* application binds several handlers to the list box's SelectionChanged   *)
(* event, and its callbacks re-enter the Ui: they bind and unbind          *)
(* handlers, borrow controls, unpack and pack controls.                    *)

SelMsg == Msg(WindowHwnd, WM_COMMAND, MAKEWPARAM(0, LBN_SELCHANGE), ListBoxHwnd)
TrigHandlers == {"a", "b", "c"}

Setup(hs, ctl, cbs) ==
    /\ handles = hs
    /\ ids = [i \in {hs[h] : h \in DOMAIN hs} |-> CHOOSE h \in DOMAIN hs : hs[h] = i]
    /\ controls = ctl
    /\ callbacks = cbs
    /\ held = {}
    /\ res = NoRes
    /\ pc = "idle"
    /\ cur = NoMsg
    /\ cb_data = NoneCD
    /\ triggered = <<>>
    /\ snapshot = <<>>
    /\ idx = 0
    /\ running = NoHandler
    /\ invoked = <<>>
    /\ forwarded = 0
    /\ queue = <<>>
    /\ hooks = [h \in Receivers |-> ThisUi]
    /\ windows = {}

\* the Ui after pack(0, window) and pack(1, list box)
InitTrigger ==
    /\ Setup([h \in {HWND(WindowHwnd), HWND(ListBoxHwnd)} |->
                  IF h = HWND(WindowHwnd) THEN 0 ELSE 1],
             [i \in {0, 1} |->
                  Control(IF i = 0 THEN HWND(WindowHwnd) ELSE HWND(ListBoxHwnd), 0)],
             NoCallbacks)
    /\ lp = "setup"

PackTrig == Pack(1, HWND(ListBoxHwnd), 0)
UnpackTrig == \E id \in Ids : Unpack(id)
TrigBinds == {<<1, "SelectionChanged", h>> : h \in TrigHandlers} \cup {<<0, "Any", "z">>}
BindTrig == \E b \in TrigBinds : Bind(b[1], b[2], b[3])
UnbindTrig == \E b \in TrigBinds : Unbind(b[1], b[2], b[3])
HoldTrig == Hold(1)
DeliverTrig == Deliver(SelMsg)

NextTrigger ==
    \/ PackTrig
    \/ UnpackTrig
    \/ BindTrig
    \/ UnbindTrig
    \/ HoldTrig
    \/ DeliverTrig
    \/ CallbackEnter
    \/ CallbackReturn
    \/ RawStage
    \/ Forward
    \/ Return

SpecTrigger == InitTrigger /\ [][NextTrigger]_vars

-----------------------------------------------------------------------------
(* SpecParse: a window under id 0 and one child control, of any class,     *)
(* under id 1, with a handler bound to every event of both; the platform   *)
(* sends notifications with notify codes in and out of the parse tables.   *)

\* Largest of the small notify codes sent (0..MaxNcode)
MaxNcode == 7
NCodes == (0..MaxNcode) \cup {EN_SETFOCUS, EN_KILLFOCUS, 768, EN_UPDATE, 1280, EN_MAXTEXT, 32767}

ParseMsgs ==
    CommandMsgs({WindowHwnd}, NCodes, (Hwnds \ {WindowHwnd}) \cup {NullHwnd})
    \cup {Msg(WindowHwnd, WM_NOTIFY, 0, p) : p \in 1..Len(NMHDRs)}

InitParse ==
    \E child \in Hwnds \ {WindowHwnd} :
        /\ Setup([h \in {HWND(WindowHwnd), HWND(child)} |->
                      IF h = HWND(WindowHwnd) THEN 0 ELSE 1],
                 [i \in {0, 1} |->
                      Control(IF i = 0 THEN HWND(WindowHwnd) ELSE HWND(child), 0)],
                 [sl \in Slots |-> <<"h">>])
        /\ lp = "setup"

DeliverParse == \E m \in ParseMsgs : Deliver(m)

NextParse ==
    \/ DeliverParse
    \/ CallbackEnter
    \/ CallbackReturn
    \/ RawStage
    \/ Forward
    \/ Return

SpecParse == InitParse /\ [][NextParse]_vars

-----------------------------------------------------------------------------
(* SpecLoop: dispatch_events and exit.  The window under id 0 has a        *)
(* handler bound to Event::Any and the list box under id 1 one bound to    *)
(* SelectionChanged; the platform posts messages to the thread's queue,    *)
(* and the application calls exit() from its setup code or a callback.     *)

\* Capacity of the posted-message queue (PostMessageW fails when it is full)
MaxQueue == 3

QuitMsg == Msg(NullHwnd, WM_QUIT, 0, 0)
MoveMsg == Msg(WindowHwnd, WM_MOVE, 0, 0)
LoopMsgs == {SelMsg, MoveMsg}

InitLoop ==
    /\ Setup([h \in {HWND(WindowHwnd), HWND(ListBoxHwnd)} |->
                  IF h = HWND(WindowHwnd) THEN 0 ELSE 1],
             [i \in {0, 1} |->
                  Control(IF i = 0 THEN HWND(WindowHwnd) ELSE HWND(ListBoxHwnd), 0)],
             [sl \in Slots |-> IF sl \in {<<0, "Any">>, <<1, "SelectionChanged">>}
                               THEN <<"h">> ELSE <<>>])
    /\ lp = "setup"

\* the application enters dispatch_events
StartLoop ==
    /\ lp = "setup"
    /\ pc = "idle"
    /\ lp' = "get"
    /\ res' = NoRes
    /\ UNCHANGED <<registry, callbacks, held, dispatcher, queue>>
    /\ UNCHANGED platform

\* the platform posts message m to the queue
PostMessage(m) ==
    /\ Len(queue) < MaxQueue
    /\ queue' = Append(queue, m)
    /\ UNCHANGED <<registry, callbacks, held, res, dispatcher, lp>>
    /\ UNCHANGED platform

\* exit(): PostMessageW(null, WM_QUIT, 0, 0), its result ignored
Exit ==
    /\ UserCtx
    /\ queue' = IF Len(queue) < MaxQueue THEN Append(queue, QuitMsg) ELSE queue
    /\ res' = Result("Exit", NoId, NoHandle, "Ok")
    /\ UNCHANGED <<registry, callbacks, held, dispatcher, lp>>
    /\ UNCHANGED platform

\* a loop that takes WM_QUIT off the queue and goes on waiting
GetMessage_ignore_quit ==
    /\ lp = "get"
    /\ pc = "idle"
    /\ queue # <<>>
    /\ queue' = Tail(queue)
    /\ res' = NoRes
    /\ IF Head(queue).msg = WM_QUIT
       THEN UNCHANGED <<lp, dispatcher>>
       ELSE lp' = "dispatch" /\ Begin(Head(queue))
    /\ UNCHANGED <<registry, callbacks, held>>
    /\ UNCHANGED platform

\* one turn of `while GetMessageW(..) != 0 { TranslateMessage; DispatchMessageW }`:
\* GetMessageW blocks on an empty queue and returns 0 for WM_QUIT
GetMessage ==
    /\ lp = "get"
    /\ pc = "idle"
    /\ queue # <<>>
    /\ queue' = Tail(queue)
    /\ res' = NoRes
    /\ IF Head(queue).msg = WM_QUIT
       THEN lp' = "returned" /\ UNCHANGED dispatcher
       ELSE lp' = "dispatch" /\ Begin(Head(queue))
    /\ UNCHANGED <<registry, callbacks, held>>
    /\ UNCHANGED platform

PostLoop == \E m \in LoopMsgs : PostMessage(m)

NextLoop ==
    \/ StartLoop
    \/ PostLoop
    \/ Exit
    \/ GetMessage
    \/ CallbackEnter
    \/ CallbackReturn
    \/ RawStage
    \/ Forward
    \/ Return

\* the thread runs: the loop and process_events take their next step, and a
\* callback that was entered returns
LoopFairness ==
    /\ WF_vars(StartLoop)
    /\ WF_vars(GetMessage)
    /\ WF_vars(CallbackEnter)
    /\ WF_vars(CallbackReturn)
    /\ WF_vars(RawStage)
    /\ WF_vars(Forward)
    /\ WF_vars(Return)

SpecLoop == InitLoop /\ [][NextLoop]_vars /\ LoopFairness

-----------------------------------------------------------------------------
(* SpecChar: the character unpacker applied to payload words.  A WPARAM is *)
(* pointer sized, 32 bits on x86 and 64 bits on x86_64; here it is the     *)
(* pair <<high 32 bits, low 32 bits>>, the high half being 0 on x86.       *)

\* Largest high half of a payload word tried
MaxHi == 1
WPARAM64(hi, lo) == <<hi, lo>>
\* winapi::UNICODE_NOCHAR, a WPARAM
UNICODE_NOCHAR == WPARAM64(0, 65535)
\* `w as u32`: the low 32 bits
as_u32(w) == w[2]
NoArgs == <<>>
ArgsChar(c) == <<"Char", c>>

\* std::char::from_u32: the code points but the surrogates; NoArgs stands for None
from_u32(x) ==
    IF x >= 0 /\ x <= 1114111 /\ ~(x >= 55296 /\ x <= 57343) THEN <<x>> ELSE NoArgs

\* unpack_char: the unpacker of Event::Char
unpack_char(hwnd, msg, w, l) ==
    IF w = UNICODE_NOCHAR THEN NoArgs
    ELSE LET c == from_u32(as_u32(w)) IN
         IF c # NoArgs THEN ArgsChar(c[1]) ELSE NoArgs

\* low halves tried: around the surrogates, the sentinel and the last code point
CharWords == {0, 65, 55295, 55296, 57343, 57344, 65534, 65535, 65536,
              1114111, 1114112, 2147483647}

InitChar ==
    /\ Setup(<<>>, <<>>, NoCallbacks)
    /\ lp = "setup"

\* the unpacker of Event::Char is applied to a WM_UNICHAR or WM_CHAR message
UnpackChar ==
    \E h \in Hwnds, msg \in {WM_UNICHAR, WM_CHAR}, hi \in 0..MaxHi, lo \in CharWords :
        /\ res' = <<"unpack_char", msg, WPARAM64(hi, lo), unpack_char(h, msg, WPARAM64(hi, lo), 0), h>>
        /\ UNCHANGED <<registry, callbacks, held, dispatcher, queue, lp, platform>>

NextChar == UnpackChar

SpecChar == InitChar /\ [][NextChar]_vars

-----------------------------------------------------------------------------
(* SpecHook: hook_window_events, unhook_window_events and window_id.  Two  *)
(* Uis of the same ID type live in the process: this one, whose registry   *)
(* is `handles`, and a second one with a registry of its own.  The         *)
(* platform keeps, per window, the reference data of the subclass          *)
(* (process_events, EVENTS_DISPATCH_ID) when it is installed.              *)

\* registry of the second Ui
OtherHandles == [h \in {HWND(WindowHwnd), HWND(ButtonHwnd)} |->
                     IF h = HWND(WindowHwnd) THEN 1 ELSE 0]

\* (&*data).inner_id_from_handle(handle), data being the address of a UiInner
id_from_handle_in(data, handle) ==
    IF data = ThisUi THEN inner_id_from_handle(handle)
    ELSE IF handle \in DOMAIN OtherHandles THEN OtherHandles[handle] ELSE NoId

\* a window_id that does not compare the hook's data with inner_ref
window_id_any_ref(handle, inner_ref) ==
    IF handle \in DOMAIN hooks
    THEN id_from_handle_in(hooks[handle], HWND(handle))
    ELSE NoId

window_id(handle, inner_ref) ==
    IF handle \in DOMAIN hooks
    THEN IF hooks[handle] = inner_ref
         THEN id_from_handle_in(hooks[handle], HWND(handle))
         ELSE NoId
    ELSE NoId

\* SetWindowSubclass installs the subclass or replaces its reference data
hook_window_events(uiinner, handle) ==
    /\ pc = "idle"
    /\ hooks' = [h \in DOMAIN hooks \cup {handle} |->
                    IF h = handle THEN uiinner ELSE hooks[h]]
    /\ res' = NoRes
    /\ UNCHANGED <<registry, callbacks, held, dispatcher, queue, lp, windows>>

\* RemoveWindowSubclass when GetWindowSubclass finds the subclass
unhook_window_events(handle) ==
    /\ pc = "idle"
    /\ hooks' = IF handle \in DOMAIN hooks
                THEN [h \in DOMAIN hooks \ {handle} |-> hooks[h]]
                ELSE hooks
    /\ res' = NoRes
    /\ UNCHANGED <<registry, callbacks, held, dispatcher, queue, lp, windows>>

HookHwnds == {WindowHwnd, ButtonHwnd, ListBoxHwnd}
UiRefs == {ThisUi, OtherUi}

InitHook ==
    /\ Setup(<<>>, <<>>, NoCallbacks)
    /\ lp = "setup"

HookApp == \E u \in UiRefs, h \in HookHwnds : hook_window_events(u, h)
UnhookApp == \E h \in HookHwnds : unhook_window_events(h)
PackHook == \E id \in Ids, h \in HookHwnds : Pack(id, HWND(h), 0)
UnpackHook == \E id \in Ids : Unpack(id)
WindowIdCall ==
    \E h \in HookHwnds, ref \in UiRefs :
        /\ pc = "idle"
        /\ res' = <<"window_id", h, ref, window_id(h, ref)>>
        /\ UNCHANGED <<registry, callbacks, held, dispatcher, queue, lp, platform>>

NextHook ==
    \/ HookApp
    \/ UnhookApp
    \/ PackHook
    \/ UnpackHook
    \/ WindowIdCall

SpecHook == InitHook /\ [][NextHook]_vars

-----------------------------------------------------------------------------
(* SpecTimer: a window under id 0 and a running timer under id 1; time     *)
(* passes, the platform sends WM_TIMER for this timer and for a timer that *)
(* is not registered, and callbacks unpack and pack the timer again.       *)

InitTimer ==
    /\ Setup([h \in {HWND(WindowHwnd), TimerHandle(1)} |->
                  IF h = HWND(WindowHwnd) THEN 0 ELSE 1],
             [i \in {0, 1} |->
                  Control(IF i = 0 THEN HWND(WindowHwnd) ELSE TimerHandle(1), 0)],
             [sl \in Slots |-> IF sl \in {<<0, "Any">>, <<1, "Tick">>}
                               THEN <<"h">> ELSE <<>>])
    /\ lp = "setup"

\* the clock of the timer stored under id advances: elapsed() grows
TimerAdvance ==
    \E id \in DOMAIN controls :
        /\ controls[id].ctype = "Timer"
        /\ controls[id].elapsed < MaxElapsed
        /\ controls' = [controls EXCEPT ![id].elapsed = @ + 1]
        /\ UNCHANGED <<handles, ids, callbacks, held, res, dispatcher, queue, lp, platform>>

PackTimer == \E e \in 0..MaxElapsed : Pack(1, TimerHandle(1), e)
UnpackTimer == Unpack(1)
BindTimer == Bind(1, "Tick", "h")
DeliverTimer == \E m \in TimerMsgs(Receivers) : Deliver(m)

NextTimer ==
    \/ TimerAdvance
    \/ PackTimer
    \/ UnpackTimer
    \/ BindTimer
    \/ DeliverTimer
    \/ CallbackEnter
    \/ CallbackReturn
    \/ RawStage
    \/ Forward
    \/ Return

SpecTimer == InitTimer /\ [][NextTimer]_vars

-----------------------------------------------------------------------------
(* SpecDesync: the registry and the control store can fall out of step.    *)
(* Besides the Ui operations, a fault drops a control from the store and   *)
(* leaves its handle bound, the programmer error the expect() / unwrap()   *)
(* of process_events guard against.  A panic ends process_events: nothing  *)
(* of it runs afterwards.                                                  *)

DesyncHandles == {HWND(ListBoxHwnd), HWND(DatePickerHwnd), TimerHandle(1),
                  HMENU_ITEM(1, get_menu_id(1, 0))}

DesyncMsgs ==
    CommandMsgs(Receivers, {LBN_SELCHANGE}, {ListBoxHwnd})
    \cup NotifyMsgs(Receivers) \cup TimerMsgs(Receivers) \cup MenuMsgs(Receivers)
    \cup {Msg(WindowHwnd, WM_MOVE, 0, 0)}

InitDesync ==
    \E child \in DesyncHandles :
        /\ Setup([h \in {HWND(WindowHwnd), child} |->
                      IF h = HWND(WindowHwnd) THEN 0 ELSE 1],
                 [i \in {0, 1} |->
                      Control(IF i = 0 THEN HWND(WindowHwnd) ELSE child, 0)],
                 [sl \in Slots |-> <<"h">>])
        /\ lp = "setup"

\* fault: the control stored under id disappears, its handle stays registered
Desync ==
    \E id \in DOMAIN controls :
        /\ pc = "idle"
        /\ id \in DOMAIN ids
        /\ controls' = [i \in DOMAIN controls \ {id} |-> controls[i]]
        /\ res' = NoRes
        /\ UNCHANGED <<handles, ids, callbacks, held, dispatcher, queue, lp, platform>>

PackDesync == \E h \in DesyncHandles : Pack(1, h, 0)
UnpackDesync == \E id \in Ids : Unpack(id)
DeliverDesync == \E m \in DesyncMsgs : Deliver(m)

NextDesync ==
    \/ Desync
    \/ PackDesync
    \/ UnpackDesync
    \/ DeliverDesync
    \/ CallbackEnter
    \/ CallbackReturn
    \/ RawStage
    \/ Forward
    \/ Return

SpecDesync == InitDesync /\ [][NextDesync]_vars

-----------------------------------------------------------------------------
(* SpecSystem: a window under id 0 and one child under id 1, a handler     *)
(* bound to every event of both; the platform sends the system messages    *)
(* the Event constants name, next to the four kinds process_events         *)
(* classifies.                                                             *)

SystemCodes == {WM_MOVE, WM_SIZE, WM_CLOSE, WM_PAINT, WM_KEYDOWN, WM_CHAR, WM_UNICHAR,
                WM_LBUTTONDOWN, WM_LBUTTONUP}
SystemMsgs == {Msg(WindowHwnd, c, w, l) : c \in SystemCodes, w \in {0, 65}, l \in {0, 1}}

InitSystem ==
    \E child \in DesyncHandles :
        /\ Setup([h \in {HWND(WindowHwnd), child} |->
                      IF h = HWND(WindowHwnd) THEN 0 ELSE 1],
                 [i \in {0, 1} |->
                      Control(IF i = 0 THEN HWND(WindowHwnd) ELSE child, 0)],
                 [sl \in Slots |-> <<"h">>])
        /\ lp = "setup"

DeliverSystem == \E m \in SystemMsgs \cup DesyncMsgs : Deliver(m)

NextSystem ==
    \/ DeliverSystem
    \/ CallbackEnter
    \/ CallbackReturn
    \/ RawStage
    \/ Forward
    \/ Return

SpecSystem == InitSystem /\ [][NextSystem]_vars

-----------------------------------------------------------------------------
(* SpecBuild: ButtonT::build and GroupBoxT::build.  low::window_helper is  *)
(* not part of the sources at hand: handle_of_window succeeds for the id   *)
(* of a packed window, and the outcomes of handle_of_font, build_sysclass  *)
(* and build_window (CreateWindowExW) are inputs of the build.             *)

\* Number of window handles the platform can hand out to builds
MaxWindows == 4
BuildHwnds == (Len(HwndClass) + 1)..(Len(HwndClass) + MaxWindows)
FreeHwnds == BuildHwnds \ {w.hwnd : w \in windows}
\* the handle CreateWindowExW returns next
NewHwnd(used) == CHOOSE h \in BuildHwnds \ used : \A g \in BuildHwnds \ used : h <= g
Window(h, class, parent) == [hwnd |-> h, class |-> class, parent |-> parent]
FontArgs == {"None", "Font", "NotAFont"}

\* handle_of_window(ui, id, msg): the handle of a window-like control, or an error
handle_of_window(id) ==
    IF id \in DOMAIN controls /\ controls[id].ctype = "Window"
    THEN controls[id].handle[2] ELSE NullHwnd

\* result of a build, with the handles of the windows it created
BuildResult(kind, err, h, created) == <<"build", kind, err, h, created>>

\* ButtonT::build
ButtonBuild(parent_id, font, create_ok) ==
    LET parent == handle_of_window(parent_id) IN
    /\ UserCtx
    /\ FreeHwnds # {}
    /\ IF parent = NullHwnd
       THEN res' = BuildResult("Button", "BadParent", NullHwnd, {}) /\ UNCHANGED windows
       ELSE IF font = "NotAFont"
       THEN res' = BuildResult("Button", "BadResource", NullHwnd, {}) /\ UNCHANGED windows
       ELSE IF ~create_ok
       THEN res' = BuildResult("Button", "System", NullHwnd, {}) /\ UNCHANGED windows
       ELSE LET h == NewHwnd({w.hwnd : w \in windows}) IN
            /\ windows' = windows \cup {Window(h, "BUTTON", parent)}
            /\ res' = BuildResult("Button", "Ok", h, {h})
    /\ UNCHANGED <<registry, callbacks, held, dispatcher, queue, lp, hooks>>

\* GroupBoxT::build: build_sysclass, build_window and, inside it, add_label_children
GroupBoxBuild(sysclass_ok, parent_id, font, create_ok, label_ok) ==
    LET parent == handle_of_window(parent_id) IN
    /\ UserCtx
    /\ Cardinality(FreeHwnds) >= 2
    /\ IF ~sysclass_ok
       THEN res' = BuildResult("GroupBox", "System", NullHwnd, {}) /\ UNCHANGED windows
       ELSE IF parent = NullHwnd
       THEN res' = BuildResult("GroupBox", "BadParent", NullHwnd, {}) /\ UNCHANGED windows
       ELSE IF ~create_ok
       THEN res' = BuildResult("GroupBox", "System", NullHwnd, {}) /\ UNCHANGED windows
       ELSE LET h == NewHwnd({w.hwnd : w \in windows})
                label == NewHwnd({w.hwnd : w \in windows} \cup {h})
                box == Window(h, "NWG_BUILTIN_GROUPBOX", parent) IN
            \* add_label_children(ui, t, h)?
            IF font = "NotAFont"
            THEN /\ windows' = windows \cup {box}
                 /\ res' = BuildResult("GroupBox", "BadResource", NullHwnd, {h})
            ELSE IF ~label_ok
            THEN /\ windows' = windows \cup {box}
                 /\ res' = BuildResult("GroupBox", "System", NullHwnd, {h})
            ELSE /\ windows' = windows \cup {box, Window(label, "STATIC", h)}
                 /\ res' = BuildResult("GroupBox", "Ok", h, {h, label})
    /\ UNCHANGED <<registry, callbacks, held, dispatcher, queue, lp, hooks>>

\* Control::free of a built control: DestroyWindow(handle) destroys the window
\* and its child windows
FreeBuilt(h) ==
    /\ UserCtx
    /\ \E w \in windows : w.hwnd = h /\ w.class # "STATIC"
    /\ windows' = {w \in windows : w.hwnd # h /\ w.parent # h}
    /\ res' = NoRes
    /\ UNCHANGED <<registry, callbacks, held, dispatcher, queue, lp, hooks>>

InitBuild ==
    /\ Setup([h \in {HWND(WindowHwnd), HWND(ListBoxHwnd)} |->
                  IF h = HWND(WindowHwnd) THEN 0 ELSE 1],
             [i \in {0, 1} |->
                  Control(IF i = 0 THEN HWND(WindowHwnd) ELSE HWND(ListBoxHwnd), 0)],
             NoCallbacks)
    /\ lp = "setup"

ButtonBuildApp ==
    \E parent_id \in Ids, font \in FontArgs, create_ok \in BOOLEAN :
        ButtonBuild(parent_id, font, create_ok)
GroupBoxBuildApp ==
    \E sysclass_ok \in BOOLEAN, parent_id \in Ids, font \in FontArgs,
       create_ok \in BOOLEAN, label_ok \in BOOLEAN :
        GroupBoxBuild(sysclass_ok, parent_id, font, create_ok, label_ok)
FreeBuiltApp == \E h \in BuildHwnds : FreeBuilt(h)

NextBuild ==
    \/ ButtonBuildApp
    \/ GroupBoxBuildApp
    \/ FreeBuiltApp

SpecBuild == InitBuild /\ [][NextBuild]_vars

-----------------------------------------------------------------------------
(* Properties of the dispatcher and the registry under Spec.               *)

InProcessEvents == pc \in {"specific", "raw", "any", "forward", "done"}
BeginStep == pc = "idle" /\ pc' # "idle"
RawStep == pc \in {"raw", "specific"} /\ pc' \in {"any", "forward"}
ForwardStep == forwarded' # forwarded /\ pc' # "idle"
DispatcherStep == CallbackEnter \/ CallbackReturn \/ RawStage \/ Forward \/ Return

\* the handle a message names as its sender (WM_COMMAND, WM_NOTIFY), its menu
\* item (WM_MENUCOMMAND) or its timer (WM_TIMER)
HasSource(m) ==
    \/ m.msg = WM_COMMAND /\ m.l # NullHwnd
    \/ m.msg \in {WM_NOTIFY, WM_MENUCOMMAND, WM_TIMER}
SourceHandle(m) ==
    CASE m.msg = WM_COMMAND -> HWND(m.l)
      [] m.msg = WM_NOTIFY -> HWND(NMHDRs[m.l].hwndFrom)
      [] m.msg = WM_MENUCOMMAND -> HMENU_ITEM(m.l, get_menu_id(m.l, m.w))
      [] OTHER -> TimerHandle(m.w)

C1_State ==
    /\ pc # "panicked"
    /\ forwarded \in {0, 1}
    /\ pc \in {"specific", "raw", "any", "forward"} => forwarded = 0
    /\ pc = "done" => forwarded = 1 /\ running = NoHandler /\ idx = Len(snapshot)
    /\ InProcessEvents => ENABLED DispatcherStep
C1_Step ==
    /\ ForwardStep =>
          /\ forwarded = 0 /\ forwarded' = 1
          /\ running = NoHandler /\ idx = Len(snapshot)
          /\ pc \in {"forward", "any"}
          /\ triggered' = triggered /\ invoked' = invoked
    /\ (pc # "idle" /\ pc' = "idle") => (pc = "done" /\ forwarded = 1)
    /\ pc = "done" => (pc' = "idle" \/ UNCHANGED <<triggered, invoked, forwarded, pc>>)

\* C1: every message handed to process_events is passed to DefSubclassProc exactly
\* once, after every trigger call and every callback for it has finished, and
\* process_events never returns without having passed it on.
C1_ForwardedOnceAfterTriggers == [] C1_State /\ [][C1_Step]_vars
C1_Witness ==
    pc = "done" /\ forwarded = 1 /\ Len(triggered) = 2 /\ Len(invoked) = 2

InCustomRange(msg) == msg \in NWG_CUSTOM_MIN..NWG_CUSTOM_MAX
IsAny(t) == t[2] = "Any"

C2_State ==
    /\ (InProcessEvents /\ cb_data # NoneCD) => (triggered # <<>> /\ triggered[1] = cb_data)
    /\ \A i \in 1..Len(triggered) : IsAny(triggered[i]) => (i = Len(triggered) /\ ~InCustomRange(cur.msg))
C2_Step ==
    RawStep =>
        IF ~InCustomRange(cur.msg) /\ HWND(cur.hwnd) \in DOMAIN handles
        THEN /\ triggered' = Append(triggered,
                    <<handles[HWND(cur.hwnd)], "Any", <<"Raw", cur.msg, cur.w, cur.l>>>>)
             /\ pc' = "any"
        ELSE triggered' = triggered /\ pc' = "forward"

\* C2: for a message code outside [NWG_CUSTOM_MIN, NWG_CUSTOM_MAX] whose receiving
\* window resolves, process_events triggers Event::Any with Raw(msg, w, l) for the
\* window's id, after and in addition to the specific event; inside the range no
\* Event::Any is triggered.
C2_AnyRawEvent == [] C2_State /\ [][C2_Step]_vars
C2_Witness ==
    /\ pc = "done" /\ Len(triggered) = 2
    /\ triggered[1][2] = "SelectionChanged"
    /\ triggered[2] = <<0, "Any", <<"Raw", cur.msg, cur.w, cur.l>>>>

ClickMsg == Msg(WindowHwnd, WM_COMMAND, MAKEWPARAM(0, BN_CLICKED), ButtonHwnd)
ClickCall == <<1, "Click", ArgsNone, "onClick">>

\* C3: with the Button stored under id 1 (child of the window under id 0) and a
\* click callback bound to id 1, a BN_CLICKED WM_COMMAND from the button's handle
\* runs that callback exactly once with EventArgs::None, and the message is then
\* passed to DefSubclassProc.
C3_ClickCallbackFiresOnce ==
    ( /\ pc = "done" /\ cur = ClickMsg
      /\ 0 \in DOMAIN controls /\ controls[0].handle = HWND(WindowHwnd)
      /\ 1 \in DOMAIN controls /\ controls[1].handle = HWND(ButtonHwnd)
      /\ inner_id_from_handle(HWND(ButtonHwnd)) = 1
      /\ callbacks_of(1, "Click") = <<"onClick">>
      /\ \A i \in 1..Len(invoked) : invoked[i][4] = "onClick" )
    => ( /\ Cardinality({i \in 1..Len(invoked) : invoked[i] = ClickCall}) = 1
         /\ forwarded = 1 )

C4_State ==
    /\ pc # "panicked"
    /\ pc \in {"raw", "forward"} => ENABLED (RawStage \/ Forward)
    /\ (pc = "done" /\ triggered = <<>>) => forwarded = 1
C4_Step ==
    /\ (BeginStep /\ HasSource(cur') /\ SourceHandle(cur') \notin DOMAIN handles) =>
          (cb_data' = NoneCD /\ triggered' = <<>> /\ pc' = "raw")
    /\ (RawStep /\ HWND(cur.hwnd) \notin DOMAIN handles) =>
          (triggered' = triggered /\ pc' = "forward")

\* C4: when the sender of a WM_COMMAND / WM_NOTIFY, the menu item of a
\* WM_MENUCOMMAND, the timer of a WM_TIMER or the receiving window is bound to no
\* id, that step triggers no event, process_events does not abort, and the
\* message goes on to DefSubclassProc.
C4_LookupFailureNonFatal == [] C4_State /\ [][C4_Step]_vars
C4_Witness ==
    /\ pc = "done" /\ forwarded = 1 /\ triggered = <<>>
    /\ cur.msg = WM_TIMER /\ TimerHandle(cur.w) \notin DOMAIN handles
    /\ HWND(cur.hwnd) \notin DOMAIN handles

C6_State ==
    /\ \A h \in DOMAIN handles : handles[h] \in DOMAIN ids /\ ids[handles[h]] = h
    /\ \A i \in DOMAIN ids : ids[i] \in DOMAIN handles /\ handles[ids[i]] = i
    /\ \A h \in DOMAIN handles : \A i \in Ids \ {handles[h]} :
          LET r == register(i, h) IN
          r.err = "KeyExists" /\ r.handles = handles /\ r.ids = ids
C6_Step ==
    /\ \A h \in DOMAIN handles \cap DOMAIN handles' : handles'[h] = handles[h]
    /\ (res' # NoRes /\ res'[4] = "KeyExists") => UNCHANGED <<handles, ids, controls>>
    /\ (res' # NoRes /\ res'[1] = "Pack" /\ res'[3] \in DOMAIN handles
            /\ handles[res'[3]] # res'[2]) =>
          (res'[4] = "KeyExists" /\ UNCHANGED <<handles, ids, controls>>)

\* C6: each bound handle belongs to exactly one id (the two directions of the
\* registry are inverse to each other); registering a bound handle under another
\* id fails with KeyExists and leaves the registry as it was.
C6_HandleBoundOnce == [] C6_State /\ [][C6_Step]_vars
C6_Witness ==
    /\ res # NoRes /\ res[1] = "Pack" /\ res[4] = "KeyExists"
    /\ res[2] \notin DOMAIN ids
    /\ res[3] \in DOMAIN handles /\ handles[res[3]] # res[2]

-----------------------------------------------------------------------------
(* Properties of the control store and of trigger under SpecTrigger.       *)

C5_State ==
    /\ held \subseteq DOMAIN controls
    /\ running = NoHandler => held = {}
    /\ \A i \in held :
          LET r == remove(i) IN r.err = "ControlInUse" /\ r.controls = controls
    /\ \A i \in DOMAIN controls \ held :
          LET r == remove(i) IN r.err = "Ok" /\ i \notin DOMAIN r.controls
C5_Step ==
    /\ (res' # NoRes /\ res'[1] = "Unpack" /\ res'[2] \in held) =>
          (res'[4] = "ControlInUse" /\ UNCHANGED <<handles, ids, controls, callbacks, held>>)
    /\ (res' # NoRes /\ res'[4] = "ControlInUse") =>
          (res'[2] \in held /\ running # NoHandler
             /\ UNCHANGED <<handles, ids, controls, callbacks, held>>)
    /\ (res' # NoRes /\ res'[1] = "Unpack" /\ res'[2] \in DOMAIN controls \ held) =>
          (res'[4] = "Ok" /\ res'[2] \notin DOMAIN controls')
    /\ (running # NoHandler /\ running' = NoHandler) => held' = {}

\* C5: while the executing callback holds a control, removing that control
\* fails with ControlInUse and changes nothing; the hold ends when the callback
\* returns, and from then on the same removal succeeds.
C5_RemoveWhileInUse == [] C5_State /\ [][C5_Step]_vars
C5_Witness ==
    /\ running # NoHandler
    /\ res = Result("Unpack", 1, NoHandle, "ControlInUse")
    /\ 1 \in held /\ 1 \in DOMAIN controls

\* handlers invoked so far by trigger call t, in the order of invocation
HandlersFor(t) ==
    LET sel == SelectSeq(invoked, LAMBDA e : <<e[1], e[2], e[3]>> = t)
    IN [i \in 1..Len(sel) |-> sel[i][4]]
InTrigger == pc \in {"specific", "any"}

C9_State ==
    /\ InTrigger => idx <= Len(snapshot) /\ HandlersFor(CurTrigger) = SubSeq(snapshot, 1, idx)
    /\ (InTrigger /\ running # NoHandler) => running = snapshot[idx]
    /\ \A i, j \in 1..Len(snapshot) : snapshot[i] = snapshot[j] => i = j
C9_Step ==
    /\ (BeginStep /\ pc' = "specific") =>
          snapshot' = callbacks[<<cb_data'[1], cb_data'[2]>>]
    /\ (RawStep /\ pc' = "any") =>
          snapshot' = callbacks[<<triggered'[Len(triggered')][1], "Any">>]
    /\ (InTrigger /\ pc' = pc) => (snapshot' = snapshot /\ idx' \in {idx, idx + 1})
    /\ (InTrigger /\ pc' # pc) =>
          (running = NoHandler /\ idx = Len(snapshot) /\ HandlersFor(CurTrigger) = snapshot)
    /\ \A sl \in Slots : Len(callbacks'[sl]) > Len(callbacks[sl]) =>
          SubSeq(callbacks'[sl], 1, Len(callbacks[sl])) = callbacks[sl]

\* C9: a trigger call invokes the callbacks registered for its (id, event) when
\* it began, in registration order, each once; binding, unbinding, packing or
\* unpacking from inside a callback neither skips nor repeats one of them.
C9_SnapshotIteration == [] C9_State /\ [][C9_Step]_vars
C9_Witness ==
    /\ pc = "specific" /\ Len(snapshot) = 3 /\ idx = 3 /\ running = NoHandler
    /\ callbacks_of(CurTrigger[1], CurTrigger[2]) # snapshot
    /\ HandlersFor(CurTrigger) = snapshot

\* the WM_COMMAND in progress named a sender that resolved to no id
UnboundSender ==
    /\ InProcessEvents
    /\ cur.msg = WM_COMMAND /\ HasSource(cur)
    /\ cb_data = NoneCD
    /\ inner_id_from_handle(SourceHandle(cur)) = NoId

C7_State ==
    /\ \A i \in DOMAIN ids :
          LET r == unregister(i) IN ids[i] \notin DOMAIN r.handles /\ i \notin DOMAIN r.ids
    /\ UnboundSender =>
          /\ \A k \in 1..Len(triggered) : IsAny(triggered[k])
          /\ \A k \in 1..Len(invoked) : invoked[k][2] = "Any"
          /\ pc = "done" => forwarded = 1
C7_Step ==
    /\ \A i \in DOMAIN ids : i \notin DOMAIN ids' => ids[i] \notin DOMAIN handles'
    /\ (BeginStep /\ HasSource(cur') /\ inner_id_from_handle(SourceHandle(cur')) = NoId) =>
          (cb_data' = NoneCD /\ triggered' = <<>>)

\* C7 as stated: after unregister(id) the handle resolves to nothing, and a
\* message whose source is that handle fires no event: no callback runs for it.
C7_NoEventAfterUnregister == UnboundSender => invoked = <<>>

\* C7: unregistering an id removes both directions of its binding, so its handle
\* resolves to nothing afterwards, and a message whose sender is that handle
\* triggers no event of the sender (callback_data is None); the only event such a
\* message can raise is Event::Any of the window that received it.
C7_ResolveAfterUnregister == [] C7_State /\ [][C7_Step]_vars
C7_Witness ==
    /\ UnboundSender
    /\ cur = SelMsg
    /\ pc = "done" /\ forwarded = 1
    /\ Len(invoked) = 1 /\ invoked[1][2] = "Any"

-----------------------------------------------------------------------------
(* The message loop under SpecLoop.                                        *)

QuitQueued == \E i \in 1..Len(queue) : queue[i].msg = WM_QUIT
IsPrefix(a, b) == Len(a) <= Len(b) /\ SubSeq(b, 1, Len(a)) = a

C8_State ==
    /\ lp = "returned" => pc = "idle"
    /\ lp \in {"get", "returned"} => pc = "idle"
    /\ lp = "dispatch" => pc # "idle"
C8_Step ==
    /\ queue' # queue =>
          \/ IsPrefix(queue, queue') /\ Len(queue') = Len(queue) + 1
          \/ /\ queue # <<>> /\ queue' = Tail(queue)
             /\ lp = "get" /\ pc = "idle"
             /\ IF Head(queue).msg = WM_QUIT
                THEN lp' = "returned" /\ pc' = "idle"
                ELSE lp' = "dispatch" /\ cur' = Head(queue) /\ pc' # "idle"
    /\ (pc = "idle" /\ pc' # "idle") => (lp = "get" /\ queue # <<>> /\ cur' = Head(queue))
    /\ (lp = "get" /\ lp' # "get") => queue' = Tail(queue)
    /\ lp = "returned" =>
          (lp' = "returned" /\ IsPrefix(queue, queue') /\ UNCHANGED dispatcher)

\* C8: dispatch_events takes the queued messages one at a time from the head
\* of the queue and hands each to the dispatcher; on WM_QUIT it returns, leaving
\* undispatched whatever is queued behind the quit; and once a quit is queued
\* the loop returns.
C8_LoopStopsAtQuit == [] C8_State /\ [][C8_Step]_vars /\ (QuitQueued ~> lp = "returned")
C8_Witness ==
    /\ lp = "returned"
    /\ queue # <<>> /\ Head(queue).msg # WM_QUIT

-----------------------------------------------------------------------------
(* The parse tables under SpecParse.                                       *)

TableTypes == {"ListBox", "TextInput", "TextBox", "Label", "DatePicker"}
\* the notify codes each table lists
Listed(type) ==
    CASE type = "ListBox" -> {LBN_SELCHANGE, LBN_DBLCLK, LBN_SETFOCUS, LBN_KILLFOCUS}
      [] type \in {"TextInput", "TextBox"} -> {EN_UPDATE, EN_MAXTEXT, EN_SETFOCUS, EN_KILLFOCUS}
      [] type = "Label" -> {STN_CLICKED, STN_DBLCLK}
      [] type = "DatePicker" -> {DTN_CLOSEUP}
\* the notification being processed comes from a registered control of a type
\* with a parse table and carries a code its table does not list
UnlistedCode ==
    /\ InProcessEvents
    /\ cur.msg \in {WM_COMMAND, WM_NOTIFY}
    /\ HasSource(cur)
    /\ SourceHandle(cur) \in DOMAIN handles
    /\ control_type_of(SourceHandle(cur)) \in
          (IF cur.msg = WM_COMMAND THEN TableTypes ELSE {"DatePicker"})
    /\ (IF cur.msg = WM_COMMAND THEN HIWORD(cur.w) ELSE NMHDRs[cur.l].code)
          \notin Listed(control_type_of(SourceHandle(cur)))

C10_State ==
    UnlistedCode =>
          /\ cb_data = NoneCD
          /\ pc \notin {"specific", "panicked"}
          /\ \A k \in 1..Len(triggered) : triggered[k][2] = "Any"
          /\ \A k \in 1..Len(invoked) : invoked[k][2] = "Any"
          /\ pc = "done" => forwarded = 1

\* C10: a notify code that the sending control type's parse table does not list
\* parses to no event: no callback of a specific event runs for the message,
\* nothing fails, and the message goes on down the chain.
C10_UnknownCodeYieldsNothing == [] C10_State
C10_Witness ==
    /\ UnlistedCode
    /\ pc = "done"
    /\ cur.msg = WM_COMMAND
    /\ control_type_of(SourceHandle(cur)) = "ListBox"
    /\ HIWORD(cur.w) = 3
    /\ Len(invoked) = 1

-----------------------------------------------------------------------------
(* The character unpacker under SpecChar.                                  *)

CharCall == res # NoRes /\ res[1] = "unpack_char"
\* the payload word, as a number, is a Unicode scalar value
IsCodePoint(w) == w[1] = 0 /\ from_u32(w[2]) # NoArgs

\* C11: unpack_char yields nothing for the UNICODE_NOCHAR sentinel, Char(c) for a
\* payload word that is a valid code point c, nothing for any other payload word,
\* and never another EventArgs shape.
C11_CharDecoder ==
    CharCall =>
       /\ res[3] = UNICODE_NOCHAR => res[4] = NoArgs
       /\ (res[3] # UNICODE_NOCHAR /\ IsCodePoint(res[3])) => res[4] = ArgsChar(res[3][2])
       /\ (res[3] # UNICODE_NOCHAR /\ ~IsCodePoint(res[3])) => res[4] = NoArgs
       /\ res[4] = NoArgs \/ res[4][1] = "Char"

-----------------------------------------------------------------------------
(* window_id under SpecHook.                                               *)

WindowIdResult == res # NoRes /\ res[1] = "window_id"
Hooked(h, ref) == h \in DOMAIN hooks /\ hooks[h] = ref

C12_State ==
    WindowIdResult =>
       /\ res[4] # NoId =>
             /\ Hooked(res[2], res[3])
             /\ id_from_handle_in(res[3], HWND(res[2])) = res[4]
       /\ ~Hooked(res[2], res[3]) => res[4] = NoId
       /\ Hooked(res[2], res[3]) => res[4] = id_from_handle_in(res[3], HWND(res[2]))
C12_Step ==
    \A h \in HookHwnds :
       (h \in DOMAIN hooks /\ h \notin DOMAIN hooks') =>
          \A ref \in UiRefs : window_id(h, ref)' = NoId

\* C12: window_id(handle, inner_ref) is the id of the window exactly when the
\* window carries the dispatch subclass, the subclass data is inner_ref and the
\* handle resolves in that registry; it is None for a window that is not hooked,
\* that another registry hooked, or that unhook_window_events has unhooked.
C12_WindowIdOnlyOwnHook == [] C12_State /\ [][C12_Step]_vars
C12_Witness ==
    /\ WindowIdResult
    /\ res[3] = ThisUi
    /\ res[2] \in DOMAIN hooks /\ hooks[res[2]] = OtherUi
    /\ inner_id_from_handle(HWND(res[2])) # NoId
    /\ res[4] = NoId

-----------------------------------------------------------------------------
(* WM_COMMAND classification under SpecParse.                              *)

\* the events each parse table can produce
EventsOfTable(type) ==
    CASE type = "ListBox" -> {"SelectionChanged", "DoubleClick", "Focus"}
      [] type \in {"TextInput", "TextBox"} -> {"ValueChanged", "LimitReached", "Focus"}
      [] type = "Label" -> {"Click", "DoubleClick"}
      [] type = "DatePicker" -> {"DateChanged"}
      [] OTHER -> {}
\* the entry of the table of `type` for notify code n, NoneCD when there is none
TableEntry(id, type, n) ==
    CASE type = "ListBox" -> parse_listbox_command(id, n)
      [] type \in {"TextInput", "TextBox"} -> parse_edit_command(id, n)
      [] type = "Label" -> parse_static_command(id, n)
      [] type = "DatePicker" -> parse_datepicker_command(id, n)
      [] OTHER -> NoneCD
InCommand == InProcessEvents /\ cur.msg = WM_COMMAND
SenderId == inner_id_from_handle(HWND(cur.l))

C13_State ==
    InCommand =>
       /\ cur.l = NullHwnd => cb_data = NoneCD
       /\ (cur.l # NullHwnd /\ SenderId = NoId) => cb_data = NoneCD
       /\ (cur.l # NullHwnd /\ SenderId # NoId) =>
             LET type == controls[SenderId].ctype IN
             /\ cb_data = TableEntry(SenderId, type, HIWORD(cur.w))
             /\ type \notin TableTypes => cb_data = NoneCD
             /\ cb_data # NoneCD <=>
                   (type \in TableTypes /\ HIWORD(cur.w) \in Listed(type))
             /\ cb_data # NoneCD =>
                   /\ cb_data[1] = SenderId
                   /\ cb_data[1] # inner_id_from_handle(HWND(cur.hwnd))
                   /\ cb_data[2] \in EventsOfTable(type)
       /\ \A k \in 1..Len(triggered) :
             ~IsAny(triggered[k]) => (k = 1 /\ triggered[k] = cb_data)

-----------------------------------------------------------------------------
(* WM_TIMER classification under SpecTimer.                                *)

IsTick(t) == t[2] = "Tick"
TickCount == Cardinality({k \in 1..Len(triggered) : IsTick(triggered[k])})

C14_State ==
    (InProcessEvents /\ cur.msg = WM_TIMER) =>
       /\ TickCount = (IF cb_data = NoneCD THEN 0 ELSE 1)
       /\ cb_data # NoneCD => (triggered # <<>> /\ triggered[1] = cb_data)
       /\ \A k \in 1..Len(invoked) :
             IsTick(invoked[k]) => <<invoked[k][1], invoked[k][2], invoked[k][3]>> = cb_data
C14_Step ==
    (BeginStep /\ cur'.msg = WM_TIMER) =>
       LET id == inner_id_from_handle(TimerHandle(cur'.w)) IN
       IF id = NoId
       THEN cb_data' = NoneCD /\ triggered' = <<>>
       ELSE /\ cb_data' = <<id, "Tick", ArgsTick(controls[id].elapsed)>>
            /\ triggered' = <<cb_data'>>

\* C14: WM_TIMER resolves the handle (Timer tag, wParam) to an id; when it resolves
\* exactly one Tick is triggered for that id, with the elapsed time the timer
\* stored under the id has when the message is dispatched; when it does not
\* resolve no Tick is triggered.
C14_TimerTick == [] C14_State /\ [][C14_Step]_vars
C14_Witness ==
    /\ cur.msg = WM_TIMER /\ pc = "done"
    /\ cb_data = <<1, "Tick", ArgsTick(1)>>
    /\ TickCount = 1
    /\ \E k \in 1..Len(invoked) : IsTick(invoked[k])
    /\ 1 \in DOMAIN controls /\ controls[1].elapsed = 1

-----------------------------------------------------------------------------
(* Registry / store desynchronisation under SpecDesync.                    *)

\* every registered handle has a stored control
Synced == \A h \in DOMAIN handles : handles[h] \in DOMAIN controls
\* message m names a source that resolves to an id without a stored control
MissingControl(m) ==
    /\ m.msg \in {WM_COMMAND, WM_NOTIFY, WM_TIMER}
    /\ HasSource(m)
    /\ inner_id_from_handle(SourceHandle(m)) # NoId
    /\ inner_id_from_handle(SourceHandle(m)) \notin DOMAIN controls

C15_State ==
    pc = "panicked" =>
       /\ triggered = <<>> /\ invoked = <<>> /\ forwarded = 0
       /\ MissingControl(cur)
       /\ ~Synced
C15_Step ==
    /\ (BeginStep /\ MissingControl(cur')) => pc' = "panicked"
    /\ (BeginStep /\ pc' = "panicked") => ~Synced
    /\ pc = "panicked" => UNCHANGED vars
    /\ (Synced /\ ~Desync) => Synced'

\* C15: when the source of a WM_COMMAND, WM_NOTIFY or WM_TIMER resolves to an id
\* that has no stored control, process_events panics: no event is triggered and
\* nothing more of it runs.  Register, insert and remove keep every registered
\* handle backed by a stored control, so without the fault the panic cannot occur.
C15_DesyncIsFatal == [] C15_State /\ [][C15_Step]_vars
C15_Witness ==
    /\ pc = "panicked"
    /\ cur.msg = WM_NOTIFY
    /\ 0 \in DOMAIN controls

-----------------------------------------------------------------------------
(* Events triggered per message under SpecSystem.                          *)

ClassifiedKinds == {WM_COMMAND, WM_NOTIFY, WM_MENUCOMMAND, WM_TIMER}
AnyCount == Cardinality({k \in 1..Len(triggered) : IsAny(triggered[k])})
SpecificCount == Cardinality({k \in 1..Len(triggered) : ~IsAny(triggered[k])})

C16_State ==
    InProcessEvents =>
       /\ Len(triggered) <= 2 /\ AnyCount <= 1 /\ SpecificCount <= 1
       /\ SpecificCount = 1 => (~IsAny(triggered[1]) /\ cur.msg \in ClassifiedKinds)
       /\ cur.msg \notin ClassifiedKinds =>
             /\ cb_data = NoneCD
             /\ \A k \in 1..Len(invoked) : invoked[k][2] = "Any"
       /\ \A i, j \in 1..Len(invoked) :
             (i < j /\ invoked[i][2] = "Any") => invoked[j][2] = "Any"
C16_Step ==
    (BeginStep /\ cur'.msg \notin ClassifiedKinds) => (cb_data' = NoneCD /\ triggered' = <<>>)

\* C16: process_events triggers a specific event only for WM_COMMAND, WM_NOTIFY,
\* WM_MENUCOMMAND and WM_TIMER; for any other message, the system messages with
\* Event constants included, it triggers at most Event::Any; a message triggers
\* at most two events, the specific one first.
C16_AtMostSpecificThenAny == [] C16_State /\ [][C16_Step]_vars
C16_Witness ==
    /\ pc = "done"
    /\ cur.msg = WM_CLOSE
    /\ triggered = <<<<0, "Any", ArgsRaw(WM_CLOSE, cur.w, cur.l)>>>>
    /\ Len(invoked) = 1

-----------------------------------------------------------------------------
(* Control builds under SpecBuild.                                         *)

BuildDone == res # NoRes /\ res[1] = "build"
Alive == {w.hwnd : w \in windows}

\* C17: a build that returns an error leaves none of the windows it created
\* alive: ButtonT::build resolves parent and font before it creates a window, and
\* a GroupBoxT::build that fails in add_label_children, after the group box
\* window exists, does not leave that window behind.
C17_FailedBuildLeavesNoWindow ==
    (BuildDone /\ res[3] # "Ok") => res[5] \cap Alive = {}

====
